---- MODULE Spec2Model ----
(***************************************************************************)
(* ng-fetch: host metrics collection, fixed-width report rendering and     *)
(* best-effort language toolchain detection.                               *)
(*                                                                         *)
(* A Go string is modelled as a sequence of code points; each code point   *)
(* is a one-element TLA+ string ("a", " ", "\n"), or a symbolic name for a *)
(* multi-byte code point ("U+F17C") or the escape character ("ESC").       *)
(***************************************************************************)
EXTENDS Integers, Sequences, FiniteSets, TLC

VARIABLES
    pc,                 \* position of the single thread of control
    \* ---- cmd.Execute / system.PrintSystemInfo
    env,                \* what the host answers in this run (flags, sub-query results)
    colorNoColor,       \* the process-wide switch color.NoColor
    called,             \* host sub-queries invoked so far, in order
    info,               \* *SystemInfo returned by collectSystemInfo (NIL = nil)
    err,                \* error value held by the caller (NIL = nil)
    out,                \* what has been written to the terminal, in order
    exitCode,           \* process exit status: <<>> while running, <<code>> once exited
    \* ---- system.GetProgrammingLanguages / runCommand
    goos,               \* runtime.GOOS
    command,            \* runCommand's command
    outcome,            \* what the child process does: [err, output]
    argv,               \* the argv handed to exec.Command
    trimmed,            \* runCommand's local `version` after strings.TrimSpace
    version,            \* runCommand's result
    languages,          \* GetProgrammingLanguages' local `languages`
    installedLanguages, \* GetProgrammingLanguages' result
    probes,             \* child processes started so far: [command, failed]
    \* ---- getPadding
    content, totalWidthArg, padding

vars == <<pc, env, colorNoColor, called, info, err, out, exitCode,
          goos, command, outcome, argv, trimmed, version,
          languages, installedLanguages, probes,
          content, totalWidthArg, padding>>

runVars == <<env, colorNoColor, called, info, err, out, exitCode>>
cmdVars == <<command, outcome, argv, trimmed, version>>
detectVars == <<languages, installedLanguages, probes>>
padVars == <<content, totalWidthArg, padding>>

\* Go's nil: a pointer or error is modelled as a sequence, empty when nil
NIL == <<>>
NoEnv == [flagErr |-> FALSE]
NoOutcome == [err |-> TRUE, output |-> <<>>]

(***************************************************************************)
(* Bounds of the model.                                                    *)
(***************************************************************************)
\* longest child-process output, in pieces of OutputPieces, that is enumerated
MaxPieces == 3
\* longest content string, in code points, handed to getPadding
MaxContentLen == 3
\* largest totalWidth handed to getPadding in the padding specification
MaxWidth == 4

(***************************************************************************)
(* Package strings / unicode, as used by the program.                      *)
(***************************************************************************)
\* unicode.IsSpace on the code points the model uses
IsSpace(c) == c \in {" ", "\t", "\n", "\r"}

RECURSIVE TrimLeftSpace(_)
TrimLeftSpace(s) ==
    IF s # <<>> /\ IsSpace(Head(s)) THEN TrimLeftSpace(Tail(s)) ELSE s

RECURSIVE TrimRightSpace(_)
TrimRightSpace(s) ==
    IF s # <<>> /\ IsSpace(s[Len(s)])
    THEN TrimRightSpace(SubSeq(s, 1, Len(s) - 1))
    ELSE s

\* strings.TrimSpace
TrimSpace(s) == TrimRightSpace(TrimLeftSpace(s))

RECURSIVE FieldsAcc(_, _, _)
FieldsAcc(s, cur, acc) ==
    IF s = <<>>
    THEN IF cur = <<>> THEN acc ELSE Append(acc, cur)
    ELSE IF IsSpace(Head(s))
         THEN FieldsAcc(Tail(s), <<>>, IF cur = <<>> THEN acc ELSE Append(acc, cur))
         ELSE FieldsAcc(Tail(s), Append(cur, Head(s)), acc)

\* strings.Fields: the maximal runs of non-space code points, in order
Fields(s) == FieldsAcc(s, <<>>, <<>>)

RECURSIVE SplitAcc(_, _, _, _)
SplitAcc(s, sep, cur, acc) ==
    IF s = <<>>
    THEN Append(acc, cur)
    ELSE IF Head(s) = sep
         THEN SplitAcc(Tail(s), sep, <<>>, Append(acc, cur))
         ELSE SplitAcc(Tail(s), sep, Append(cur, Head(s)), acc)

\* strings.Split on a one-code-point separator: n separators give n+1 parts
Split(s, sep) == SplitAcc(s, sep, <<>>, <<>>)

\* strings.Contains
Contains(s, sub) ==
    \E i \in 1..(Len(s) - Len(sub) + 1) : SubSeq(s, i, i + Len(sub) - 1) = sub

\* strings.TrimPrefix
TrimPrefix(s, prefix) ==
    IF Len(s) >= Len(prefix) /\ SubSeq(s, 1, Len(prefix)) = prefix
    THEN SubSeq(s, Len(prefix) + 1, Len(s))
    ELSE s

RECURSIVE Repeat(_, _)
\* strings.Repeat of a one-code-point string, count >= 0
Repeat(c, count) == IF count <= 0 THEN <<>> ELSE <<c>> \o Repeat(c, count - 1)

RECURSIVE Flatten(_)
Flatten(ss) == IF ss = <<>> THEN <<>> ELSE Head(ss) \o Flatten(Tail(ss))

(***************************************************************************)
(* Toolchain version detection (system/SystemInfo.go).                     *)
(***************************************************************************)
VersionWord == <<"v", "e", "r", "s", "i", "o", "n">>

RECURSIVE JavaVersionScan(_, _)
\* the `for _, line := range lines` loop of the "java" case
JavaVersionScan(lines, ver) ==
    IF lines = <<>>
    THEN ver
    ELSE LET line == Head(lines)
             parts == Split(line, "\"")
         IN  IF Contains(line, VersionWord) /\ Len(parts) > 1
             THEN parts[2]
             ELSE JavaVersionScan(Tail(lines), ver)

\* a slip the extraction could make: the first token (the tool's name) for every
\* command that prints `<name> <version>`
processVersionString_FirstToken(cmd, ver) ==
    IF cmd \in {"python", "ruby", "go", "rustc", "php"}
    THEN LET parts == Fields(ver)
         IN  IF Len(parts) > 0 THEN parts[1] ELSE ver
    ELSE IF cmd = "node" THEN TrimPrefix(ver, <<"v">>)
    ELSE IF cmd = "java" THEN JavaVersionScan(Split(ver, "\n"), ver)
    ELSE ver

processVersionString(cmd, ver) ==
    IF cmd \in {"python", "ruby", "go", "rustc"}
    THEN LET parts == Fields(ver)
         IN  IF Len(parts) > 1 THEN parts[2] ELSE ver
    ELSE IF cmd = "node" THEN TrimPrefix(ver, <<"v">>)
    ELSE IF cmd = "java" THEN JavaVersionScan(Split(ver, "\n"), ver)
    ELSE IF cmd = "php"
    THEN LET parts == Fields(ver)
         IN  IF Len(parts) > 0 THEN parts[1] ELSE ver
    ELSE ver

\* the argv runCommand hands to exec.Command
CommandLine(os, cmd, arg) ==
    IF os = "windows" THEN <<"cmd", "/c", cmd, arg>> ELSE <<cmd, arg>>

\* a slip runCommand could make: the captured output of a failed child is
\* processed like that of a successful one
runCommand_IgnoreErr(cmd, oc) ==
    processVersionString(cmd, TrimSpace(oc.output))

\* runCommand's result for a child process that behaves as `oc`
runCommand(cmd, oc) ==
    IF oc.err THEN <<>> ELSE processVersionString(cmd, TrimSpace(oc.output))

\* the configured tools, in the order GetProgrammingLanguages lists them, each
\* with the command and flag of its get<Tool>Version function
Tools ==
    << [name |-> "Python",  icon |-> "U+1F40D", command |-> "python", arg |-> "--version"],
       [name |-> "Go",      icon |-> "U+1F7E2", command |-> "go",     arg |-> "version"],
       [name |-> "Node.js", icon |-> "U+1F7E8", command |-> "node",   arg |-> "--version"],
       [name |-> "Java",    icon |-> "U+2615",  command |-> "java",   arg |-> "-version"],
       [name |-> "Ruby",    icon |-> "U+1F48E", command |-> "ruby",   arg |-> "--version"],
       [name |-> "Rust",    icon |-> "U+1F980", command |-> "rustc",  arg |-> "--version"],
       [name |-> "PHP",     icon |-> "U+1F418", command |-> "php",    arg |-> "--version"] >>

ToolIndex == 1..Len(Tools)

ArgOf(cmd) == Tools[CHOOSE i \in ToolIndex : Tools[i].command = cmd].arg

(***************************************************************************)
(* Child-process outputs the model enumerates.                             *)
(***************************************************************************)
PythonOut == <<"P", "y", "t", "h", "o", "n", " ", "3", ".", "1", "1", ".", "4", "\n">>
GoOut == <<"g", "o", " ", "v", "e", "r", "s", "i", "o", "n", " ", "g", "o", "1", ".", "2", "1", ".", "0", " ", "l", "i", "n", "u", "x", "/", "a", "m", "d", "6", "4", "\n">>
NodeOut == <<"v", "1", "8", ".", "1", "6", ".", "0", "\n">>
JavaOut == <<"o", "p", "e", "n", "j", "d", "k", " ", "v", "e", "r", "s", "i", "o", "n", " ", "\"", "1", "7", ".", "0", ".", "2", "\"", " ", "2", "0", "2", "2", "-", "0", "1", "-", "1", "8", "\n">>
JavaOptsOut == <<"P", "i", "c", "k", "e", "d", " ", "u", "p", " ", "v", "e", "r", "s", "i", "o", "n", " ", "o", "p", "t", "s", "\n", "j", "a", "v", "a", " ", "v", "e", "r", "s", "i", "o", "n", " ", "\"", "1", "1", "\"", " ", "L", "T", "S", "\n">>
RubyOut == <<"r", "u", "b", "y", " ", "3", ".", "2", ".", "2", "\n">>
RustOut == <<"r", "u", "s", "t", "c", " ", "1", ".", "7", "0", ".", "0", "\n">>
PHPOut == <<"P", "H", "P", " ", "8", ".", "1", ".", "2", " ", "(", "c", "l", "i", ")", "\n">>

LiteralOutputs ==
    {PythonOut, GoOut, NodeOut, JavaOut, JavaOptsOut, RubyOut, RustOut, PHPOut}

OutputPieces ==
    {<<"v">>, <<" ">>, <<"\"">>, <<"\n">>, <<"1">>, VersionWord, <<"P", "H", "P">>}

GeneratedOutputs ==
    {Flatten(ps) : ps \in UNION {[1..n -> OutputPieces] : n \in 0..MaxPieces}}

CommandOutputs == LiteralOutputs \cup GeneratedOutputs

Commands == {Tools[i].command : i \in ToolIndex}

\* exec's CombinedOutput: the child cannot be started (err, no output), exits
\* non-zero (err, with output), or exits zero
ChildOutcomes(outputs) ==
    [err : {FALSE}, output : outputs]
        \cup [err : {TRUE}, output : {<<>>} \cup LiteralOutputs]

(***************************************************************************)
(* Specification of one runCommand call.                                   *)
(***************************************************************************)
IdleRun ==
    /\ env = NoEnv /\ colorNoColor = FALSE /\ called = <<>> /\ info = NIL
    /\ err = NIL /\ out = <<>> /\ exitCode = NIL

IdleCmd ==
    /\ command = "" /\ outcome = NoOutcome /\ argv = <<>> /\ trimmed = <<>>
    /\ version = <<>>

IdleDetect == languages = <<>> /\ installedLanguages = <<>> /\ probes = <<>>

IdlePad == content = <<>> /\ totalWidthArg = 0 /\ padding = <<>>

InitCommand ==
    /\ pc = "runCommand"
    /\ goos \in {"linux", "windows"}
    /\ command \in Commands
    /\ outcome \in ChildOutcomes(CommandOutputs)
    /\ argv = <<>> /\ trimmed = <<>> /\ version = <<>>
    /\ IdleRun /\ IdleDetect /\ IdlePad

RunCommand ==
    /\ pc = "runCommand"
    /\ argv' = CommandLine(goos, command, ArgOf(command))
    /\ trimmed' = IF outcome.err THEN <<>> ELSE TrimSpace(outcome.output)
    /\ version' = runCommand(command, outcome)
    /\ pc' = "cmdDone"
    /\ UNCHANGED <<goos, command, outcome>>
    /\ UNCHANGED <<runVars, detectVars, padVars>>

NextCommand == RunCommand

SpecCommand == InitCommand /\ [][NextCommand]_vars

(***************************************************************************)
(* Properties of runCommand / processVersionString.                        *)
(***************************************************************************)
MinOf(S) == CHOOSE x \in S : \A y \in S : x <= y

\* the maximal runs of non-space code points of s, as <<first, last>> indices
TokenSpans(s) ==
    {ab \in (1..Len(s)) \X (1..Len(s)) :
        /\ ab[1] <= ab[2]
        /\ \A k \in ab[1]..ab[2] : ~IsSpace(s[k])
        /\ ab[1] = 1 \/ IsSpace(s[ab[1] - 1])
        /\ ab[2] = Len(s) \/ IsSpace(s[ab[2] + 1])}

\* the n-th whitespace-separated token of s (n <= number of tokens)
NthToken(s, n) ==
    LET ab == CHOOSE x \in TokenSpans(s) :
                  Cardinality({y \in TokenSpans(s) : y[1] < x[1]}) = n - 1
    IN  SubSeq(s, ab[1], ab[2])

\* the lines of s, as <<first, last>> indices (last = first - 1: an empty line)
LineSpans(s) ==
    {ab \in (1..(Len(s) + 1)) \X (0..Len(s)) :
        /\ ab[2] >= ab[1] - 1
        /\ \A k \in ab[1]..ab[2] : s[k] # "\n"
        /\ ab[1] = 1 \/ s[ab[1] - 1] = "\n"
        /\ ab[2] = Len(s) \/ s[ab[2] + 1] = "\n"}

QuotesIn(s, a, b) == {q \in a..b : s[q] = "\""}

\* the lines that contain the word "version" and a double quote
VersionLines(s) ==
    {ab \in LineSpans(s) :
        /\ \E i \in ab[1]..(ab[2] - 6) : SubSeq(s, i, i + 6) = VersionWord
        /\ QuotesIn(s, ab[1], ab[2]) # {}}

\* what follows the first double quote of the first such line, up to the next
\* double quote (or to the end of that line when the quote is not closed);
\* s when there is no such line
QuotedVersion(s) ==
    IF VersionLines(s) = {}
    THEN s
    ELSE LET a == MinOf({ab[1] : ab \in VersionLines(s)})
             b == (CHOOSE ab \in VersionLines(s) : ab[1] = a)[2]
             q1 == MinOf(QuotesIn(s, a, b))
             rest == QuotesIn(s, q1 + 1, b)
             q2 == IF rest = {} THEN b + 1 ELSE MinOf(rest)
         IN  SubSeq(s, q1 + 1, q2 - 1)

Succeeded == pc = "cmdDone" /\ ~outcome.err

\* C6: processVersionString applies the per-tool rule to the trimmed output:
\* python, ruby, go, rustc give the second whitespace-separated token when there
\* are at least two; node loses one leading "v"; java gives what stands between
\* the first double quote and the next one on the first line holding "version"
\* and a quote; an output the rule does not match is returned unchanged; and the
\* three literal outputs of the specification give 3.11.4, 18.16.0 and 17.0.2.
C6_ExtractionRules ==
    Succeeded =>
        /\ command \in {"python", "ruby", "go", "rustc"} =>
               version = IF Cardinality(TokenSpans(trimmed)) >= 2
                         THEN NthToken(trimmed, 2)
                         ELSE trimmed
        /\ command = "node" =>
               version = IF trimmed # <<>> /\ trimmed[1] = "v"
                         THEN Tail(trimmed)
                         ELSE trimmed
        /\ command = "java" => version = QuotedVersion(trimmed)
        /\ command = "python" /\ outcome.output = PythonOut =>
               version = <<"3", ".", "1", "1", ".", "4">>
        /\ command = "node" /\ outcome.output = NodeOut =>
               version = <<"1", "8", ".", "1", "6", ".", "0">>
        /\ command = "java" /\ outcome.output = JavaOut =>
               version = <<"1", "7", ".", "0", ".", "2">>

\* a java probe whose second line is the first to hold "version" and a quote
C6_Witness ==
    /\ Succeeded
    /\ command = "java"
    /\ outcome.output = JavaOptsOut
    /\ version = <<"1", "1">>

\* C5: for PHP output of the form "PHP <version> ..." the extracted version is
\* the <version> token, not the word "PHP"; "PHP 8.1.2 (cli)" gives "8.1.2".
C5_PHPVersionToken ==
    (Succeeded /\ command = "php") =>
        /\ (Cardinality(TokenSpans(trimmed)) >= 2
                /\ NthToken(trimmed, 1) = <<"P", "H", "P">>) =>
               version = NthToken(trimmed, 2)
        /\ trimmed = TrimSpace(PHPOut) => version = <<"8", ".", "1", ".", "2">>

(***************************************************************************)
(* Specification of GetProgrammingLanguages.                               *)
(***************************************************************************)
languageDetector(name, icon, ver) == [Name |-> name, Icon |-> icon, Version |-> ver]

\* a slip the filter could make: the test on the version is dropped
FilterInstalled_KeepAll(langs) == langs

RECURSIVE FilterInstalled(_)
\* the `for _, lang := range languages` loop
FilterInstalled(langs) ==
    IF langs = <<>>
    THEN <<>>
    ELSE IF Head(langs).Version # <<>>
         THEN <<Head(langs)>> \o FilterInstalled(Tail(langs))
         ELSE FilterInstalled(Tail(langs))

\* the outputs a tool's child process prints in the detection specification
DetectOutputs(cmd) ==
    CASE cmd = "python" -> {PythonOut, <<"\n">>}
      [] cmd = "go"     -> {GoOut}
      [] cmd = "node"   -> {NodeOut, <<"v", "\n">>}
      [] cmd = "java"   -> {JavaOut, JavaOptsOut}
      [] cmd = "ruby"   -> {RubyOut}
      [] cmd = "rustc"  -> {RustOut}
      [] cmd = "php"    -> {PHPOut, <<"\n">>}

InitDetect ==
    /\ pc = "getPythonVersion"
    /\ goos \in {"linux", "windows"}
    /\ languages = <<>> /\ installedLanguages = <<>> /\ probes = <<>>
    /\ IdleRun /\ IdleCmd /\ IdlePad

\* one element of the `languages` literal: get<Tool>Version() through runCommand,
\* wrapped by languageDetector
DetectTool(i, here, next) ==
    /\ pc = here
    /\ \E oc \in ChildOutcomes(DetectOutputs(Tools[i].command)) :
          /\ languages' = Append(languages,
                 languageDetector(Tools[i].name, Tools[i].icon,
                                  runCommand(Tools[i].command, oc)))
          /\ probes' = Append(probes,
                 [argv |-> CommandLine(goos, Tools[i].command, Tools[i].arg),
                  failed |-> oc.err])
    /\ pc' = next
    /\ UNCHANGED <<goos, installedLanguages>>
    /\ UNCHANGED <<runVars, cmdVars, padVars>>

getPythonVersion == DetectTool(1, "getPythonVersion", "getGoVersion")
getGoVersion == DetectTool(2, "getGoVersion", "getNodeVersion")
getNodeVersion == DetectTool(3, "getNodeVersion", "getJavaVersion")
getJavaVersion == DetectTool(4, "getJavaVersion", "getRubyVersion")
getRubyVersion == DetectTool(5, "getRubyVersion", "getRustVersion")
getRustVersion == DetectTool(6, "getRustVersion", "getPHPVersion")
getPHPVersion == DetectTool(7, "getPHPVersion", "filter")

GetProgrammingLanguages_Return ==
    /\ pc = "filter"
    /\ installedLanguages' = FilterInstalled(languages)
    /\ pc' = "detectDone"
    /\ UNCHANGED <<goos, languages, probes>>
    /\ UNCHANGED <<runVars, cmdVars, padVars>>

NextDetect ==
    \/ getPythonVersion
    \/ getGoVersion
    \/ getNodeVersion
    \/ getJavaVersion
    \/ getRubyVersion
    \/ getRustVersion
    \/ getPHPVersion
    \/ GetProgrammingLanguages_Return

SpecDetect == InitDetect /\ [][NextDetect]_vars

\* the position of a tool's name in the configured order
ToolPos(name) == CHOOSE i \in ToolIndex : Tools[i].name = name

Listed(i) == \E k \in 1..Len(installedLanguages) : installedLanguages[k].Name = Tools[i].name

\* C4: the result holds exactly the configured tools whose extracted version is
\* non-empty, in the configured order, each at most once, none with an empty
\* version and none with a non-empty version missing.
C4_ExactlyDetected ==
    pc = "detectDone" =>
        /\ \A k \in 1..Len(installedLanguages) :
              /\ installedLanguages[k].Name \in {Tools[i].name : i \in ToolIndex}
              /\ installedLanguages[k].Version # <<>>
              /\ installedLanguages[k] = languages[ToolPos(installedLanguages[k].Name)]
        /\ \A k, l \in 1..Len(installedLanguages) :
              k < l => ToolPos(installedLanguages[k].Name) < ToolPos(installedLanguages[l].Name)
        /\ \A i \in ToolIndex :
              /\ languages[i].Name = Tools[i].name
              /\ languages[i].Version # <<>> => Listed(i)

\* some tools detected, some dropped for an empty version
C4_Witness ==
    /\ pc = "detectDone"
    /\ Len(installedLanguages) = 3
    /\ languages[1].Version = <<>>
    /\ languages[3].Version = <<>>
    /\ languages[7].Version # <<>>

\* C7: a probe whose child cannot be started or exits non-zero gives the empty
\* version and aborts nothing: the seven tools are probed once each in the
\* configured order, the failed tool is not in the result, and every later tool
\* whose probe gives a version is.
C7_FailedProbeIsMiss ==
    /\ Len(probes) <= Len(Tools)
    /\ Len(languages) = Len(probes)
    /\ \A i \in 1..Len(probes) :
          /\ probes[i].argv = CommandLine(goos, Tools[i].command, Tools[i].arg)
          /\ probes[i].failed => languages[i].Version = <<>>
    /\ pc \in {"filter", "detectDone"} => Len(probes) = Len(Tools)
    /\ pc = "detectDone" =>
          \A i \in ToolIndex :
              probes[i].failed =>
                  /\ ~Listed(i)
                  /\ \A j \in (i + 1)..Len(Tools) :
                        (~probes[j].failed /\ languages[j].Version # <<>>) => Listed(j)

\* the first probe fails, a later one succeeds and is listed
C7_Witness ==
    /\ pc = "detectDone"
    /\ probes[1].failed
    /\ probes[4].failed
    /\ ~probes[7].failed
    /\ Listed(7)
    /\ ~Listed(1)

(***************************************************************************)
(* getPadding (display width in code points).                              *)
(***************************************************************************)
\* the UTF-8 length of a code point: the symbolic ones stand for U+0800 and up
ByteLen(c) == IF Len(c) > 1 /\ c # "ESC" THEN 3 ELSE 1

RECURSIVE getDisplayWidth_Bytes(_)
\* a slip getDisplayWidth could make: len(s), the length in bytes
getDisplayWidth_Bytes(s) ==
    IF s = <<>> THEN 0 ELSE ByteLen(Head(s)) + getDisplayWidth_Bytes(Tail(s))

\* utf8.RuneCountInString: one per code point
getDisplayWidth(s) == Len(s)

getPadding(c, width) ==
    LET displayWidth == getDisplayWidth(c)
        paddingWidth == width - displayWidth
    IN  Repeat(" ", IF paddingWidth < 0 THEN 0 ELSE paddingWidth)

ContentPoints == {"a", "U+F17C", "U+2191"}

Contents == UNION {[1..n -> ContentPoints] : n \in 0..MaxContentLen}

InitPadding ==
    /\ pc = "getPadding"
    /\ content \in Contents
    /\ totalWidthArg \in (0 - 1)..MaxWidth
    /\ padding = <<>>
    /\ goos = "linux"
    /\ IdleRun /\ IdleCmd /\ IdleDetect

GetPadding ==
    /\ pc = "getPadding"
    /\ padding' = getPadding(content, totalWidthArg)
    /\ pc' = "padDone"
    /\ UNCHANGED <<goos, content, totalWidthArg>>
    /\ UNCHANGED <<runVars, cmdVars, detectVars>>

NextPadding == GetPadding

SpecPadding == InitPadding /\ [][NextPadding]_vars

\* C8: getPadding returns exactly max(0, totalWidth - codePointCount(content))
\* spaces: nothing when the content is as wide as totalWidth or wider, and never
\* a negative amount.
C8_PaddingWidth ==
    pc = "padDone" =>
        /\ \A k \in 1..Len(padding) : padding[k] = " "
        /\ Cardinality(DOMAIN content) >= totalWidthArg => padding = <<>>
        /\ Cardinality(DOMAIN content) < totalWidthArg =>
               Len(padding) + Cardinality(DOMAIN content) = totalWidthArg

\* a content of multi-byte code points that is padded
C8_Witness ==
    /\ pc = "padDone"
    /\ content = <<"U+F17C", "a">>
    /\ totalWidthArg = 4
    /\ Len(padding) = 2

(***************************************************************************)
(* The report: cmd.Execute, runNeofetch, PrintSystemInfo,                  *)
(* collectSystemInfo, printSystemDetails.  PrintSystemInfo is the one that *)
(* returns an error, whose result runNeofetch assigns.  `out` is standard  *)
(* output.                                                                 *)
(***************************************************************************)
\* const totalWidth of printSystemDetails
totalWidth == 58

\* the host sub-queries of collectSystemInfo, named as in its error messages
QueryOrder ==
    <<"host info", "CPU info", "CPU count", "memory info", "disk info", "network info">>

Queries == {QueryOrder[i] : i \in 1..Len(QueryOrder)}

\* the message collectSystemInfo wraps a failed sub-query in
FailedToGet(q) ==
    CASE q = "host info"    -> "failed to get host info: %v"
      [] q = "CPU info"     -> "failed to get CPU info: %v"
      [] q = "CPU count"    -> "failed to get CPU count: %v"
      [] q = "memory info"  -> "failed to get memory info: %v"
      [] q = "disk info"    -> "failed to get disk info: %v"
      [] q = "network info" -> "failed to get network info: %v"

FailedToCollect == "failed to collect system information: %v"

DigitChars == <<"0", "1", "2", "3", "4", "5", "6", "7", "8", "9">>

RECURSIVE Itoa(_)
\* fmt's %d of a non-negative integer
Itoa(n) == IF n < 10 THEN <<DigitChars[n + 1]>> ELSE Itoa(n \div 10) \o <<DigitChars[(n % 10) + 1]>>

\* fmt's %.2f of the non-negative value q[1]/q[2]: rounded to the nearest
\* hundredth, an exact tie to the even one
FormatFloat2(q) ==
    LET scaled == q[1] * 100
        low == scaled \div q[2]
        rem == scaled % q[2]
        h == IF 2 * rem > q[2] \/ (2 * rem = q[2] /\ low % 2 = 1) THEN low + 1 ELSE low
    IN  Itoa(h \div 100) \o <<".", DigitChars[((h \div 10) % 10) + 1], DigitChars[(h % 10) + 1]>>

\* the answers of the host to the six sub-queries. Byte totals are whole MiB
\* (memory, disk) or whole KiB (network), held in that unit, so that
\* float64(bytes)/(1<<30) is mib/1024 and float64(bytes)/(1<<20) is kib/1024.
HostProfiles ==
    { [Platform |-> <<"u", "b", "u", "n", "t", "u">>,
       PlatformVersion |-> <<"2", "2", ".", "0", "4">>,
       KernelVersion |-> <<"6", ".", "5", ".", "0", "-", "g", "e", "n", "e", "r", "i", "c">>,
       Hostname |-> <<"d", "e", "v", "b", "o", "x">>,
       Uptime |-> 5400, cpuCount |-> 8, memMiB |-> 16384, diskMiB |-> 524288],
      [Platform |-> <<"d", "e", "b", "i", "a", "n">>,
       PlatformVersion |-> <<"1", "2">>,
       KernelVersion |-> <<"6", ".", "1", ".", "0", "-", "1", "8", "-", "c", "l", "o", "u", "d", "-", "a", "m", "d", "6", "4", " ", "#", "1", " ", "S", "M", "P", " ", "D", "e", "b", "i", "a", "n">>,
       Hostname |-> <<"v", "m">>,
       Uptime |-> 3600, cpuCount |-> 1, memMiB |-> 1536, diskMiB |-> 0] }

\* cpu.Info(): a list of per-CPU records, which may be empty on success
CpuInfos ==
    { <<>>,
      << [ModelName |-> <<"I", "n", "t", "e", "l", " ", "i", "7">>] >> }

\* net.IOCounters(false): a list of counters
NetInfos == { <<>>, << [sentKiB |-> 1536, recvKiB |-> 10] >> }

Runs ==
    [ flagErr : BOOLEAN, noAscii : BOOLEAN, noColors : BOOLEAN, asciiOk : BOOLEAN,
      fails : SUBSET Queries, host : HostProfiles, cpuInfo : CpuInfos,
      netInfo : NetInfos ]

InitRun ==
    /\ pc = "Execute"
    /\ env \in Runs
    /\ colorNoColor = FALSE
    /\ called = <<>> /\ info = NIL /\ err = NIL /\ out = <<>> /\ exitCode = <<>>
    /\ goos = "linux"
    /\ IdleCmd /\ IdleDetect /\ IdlePad

Written(kind, line, pad) == [kind |-> kind, line |-> line, padding |-> pad]

\* cmd.Execute: cobra parses the flags and runs Run, or returns its own error
Execute ==
    /\ pc = "Execute"
    /\ IF env.flagErr
       THEN /\ out' = Append(out, Written("cobraError", <<>>, <<>>))
            /\ exitCode' = <<1>>
            /\ pc' = "exited"
       ELSE /\ pc' = "runNeofetch"
            /\ UNCHANGED <<out, exitCode>>
    /\ UNCHANGED <<env, colorNoColor, called, info, err>>
    /\ UNCHANGED <<goos, cmdVars, detectVars, padVars>>

\* runNeofetch up to the call of PrintSystemInfo: ascii.PrintASCIIArt
runNeofetch ==
    /\ pc = "runNeofetch"
    /\ out' = IF env.noAscii
              THEN out
              ELSE Append(out, Written(IF env.asciiOk THEN "ascii" ELSE "asciiError",
                                       <<>>, <<>>))
    /\ pc' = "PrintSystemInfo"
    /\ UNCHANGED <<env, colorNoColor, called, info, err, exitCode>>
    /\ UNCHANGED <<goos, cmdVars, detectVars, padVars>>

\* PrintSystemInfo up to the call of collectSystemInfo
PrintSystemInfo ==
    /\ pc = "PrintSystemInfo"
    /\ colorNoColor' = env.noColors
    /\ pc' = "host.Info"
    /\ UNCHANGED <<env, called, info, err, out, exitCode>>
    /\ UNCHANGED <<goos, cmdVars, detectVars, padVars>>

\* a slip collectSystemInfo could make: the sub-query's error is dropped
\* (`hostInfo, _ := host.Info()`) and collection goes on with a zero value
SubQuery_DropErr(q, here, next) ==
    /\ pc = here
    /\ called' = Append(called, q)
    /\ pc' = next
    /\ UNCHANGED <<env, colorNoColor, info, err, out, exitCode>>
    /\ UNCHANGED <<goos, cmdVars, detectVars, padVars>>

\* a slip collectSystemInfo could make: the error is kept but the remaining
\* sub-queries still run, and the last error is the one returned
SubQuery_KeepGoing(q, here, next) ==
    /\ pc = here
    /\ called' = Append(called, q)
    /\ err' = IF q \in env.fails THEN <<FailedToGet(q), q>> ELSE err
    /\ pc' = IF next = "return SystemInfo" /\ err' # NIL THEN "if err != nil" ELSE next
    /\ UNCHANGED <<env, colorNoColor, info, out, exitCode>>
    /\ UNCHANGED <<goos, cmdVars, detectVars, padVars>>

\* one sub-query of collectSystemInfo with its `if err != nil { return nil, ... }`
SubQuery(q, here, next) ==
    /\ pc = here
    /\ called' = Append(called, q)
    /\ IF q \in env.fails
       THEN /\ err' = <<FailedToGet(q), q>>
            /\ pc' = "if err != nil"
       ELSE /\ pc' = next
            /\ UNCHANGED err
    /\ UNCHANGED <<env, colorNoColor, info, out, exitCode>>
    /\ UNCHANGED <<goos, cmdVars, detectVars, padVars>>

hostInfo == SubQuery("host info", "host.Info", "cpu.Info")
cpuInfo == SubQuery("CPU info", "cpu.Info", "cpu.Counts")
cpuCount == SubQuery("CPU count", "cpu.Counts", "mem.VirtualMemory")
memInfo == SubQuery("memory info", "mem.VirtualMemory", "disk.Usage")
diskInfo == SubQuery("disk info", "disk.Usage", "net.IOCounters")
netInfo == SubQuery("network info", "net.IOCounters", "return SystemInfo")

\* the SystemInfo literal of collectSystemInfo; a float64 is held as the exact
\* quotient <<numerator, denominator>>
SystemInfoOf(e) ==
    [ Platform |-> e.host.Platform \o <<" ">> \o e.host.PlatformVersion,
      Kernel |-> e.host.KernelVersion,
      Hostname |-> e.host.Hostname,
      CPU |-> e.cpuInfo[1].ModelName \o <<" ", "(">> \o Itoa(e.host.cpuCount)
                  \o <<" ", "c", "o", "r", "e", "s", ")">>,
      Memory |-> <<e.host.memMiB, 1024>>,
      Disk |-> <<e.host.diskMiB, 1024>>,
      Uptime |-> <<e.host.Uptime, 3600>>,
      NetworkSent |-> <<e.netInfo[1].sentKiB, 1024>>,
      NetworkRecv |-> <<e.netInfo[1].recvKiB, 1024>> ]

\* `return &SystemInfo{...}, nil`: cpuInfo[0] and netInfo[0] are index
\* expressions, and indexing an empty slice is a run-time panic that nothing
\* recovers: the process ends with status 2
collectSystemInfo_Return ==
    /\ pc = "return SystemInfo"
    /\ IF env.cpuInfo = <<>> \/ env.netInfo = <<>>
       THEN /\ pc' = "panicked"
            /\ exitCode' = <<2>>
            /\ UNCHANGED info
       ELSE /\ info' = <<SystemInfoOf(env)>>
            /\ pc' = "if err != nil"
            /\ UNCHANGED exitCode
    /\ UNCHANGED <<env, colorNoColor, called, err, out>>
    /\ UNCHANGED <<goos, cmdVars, detectVars, padVars>>

\* PrintSystemInfo's `if err != nil { return fmt.Errorf(...) }`
PrintSystemInfo_CheckErr ==
    /\ pc = "if err != nil"
    /\ IF err # NIL
       THEN /\ err' = <<FailedToCollect>> \o err
            /\ pc' = "runNeofetch return"
       ELSE /\ pc' = "printSystemDetails"
            /\ UNCHANGED err
    /\ UNCHANGED <<env, colorNoColor, called, info, out, exitCode>>
    /\ UNCHANGED <<goos, cmdVars, detectVars, padVars>>

ESC == "ESC"

\* (*color.Color).Sprint of fatih/color: the text between the SGR sequence of
\* the attributes and a reset sequence (ESC[0m here; its exact length varies
\* with the library's version), or the text alone under color.NoColor
Sprint(attrs, noColor, s) ==
    IF noColor THEN s ELSE <<ESC, "[">> \o attrs \o <<"m">> \o s \o <<ESC, "[", "0", "m">>

\* createColorSchemes: header = FgHiGreen (92), Bold (1); value = FgWhite (37)
HeaderAttrs == <<"9", "2", ";", "1">>
ValueAttrs == <<"3", "7">>

\* the number of entries of the `metrics` table of printSystemDetails
NumMetrics == 8

\* the `metrics` table of printSystemDetails: a value is a string or a float64
Metrics(i) ==
    << [icon |-> "U+F17C", name |-> <<"P", "l", "a", "t", "f", "o", "r", "m">>, str |-> i.Platform, float |-> <<>>, unit |-> <<>>],
       [icon |-> "U+E70F", name |-> <<"K", "e", "r", "n", "e", "l">>, str |-> i.Kernel, float |-> <<>>, unit |-> <<>>],
       [icon |-> "U+E795", name |-> <<"H", "o", "s", "t", "n", "a", "m", "e">>, str |-> i.Hostname, float |-> <<>>, unit |-> <<>>],
       [icon |-> "U+F4BC", name |-> <<"C", "P", "U">>, str |-> i.CPU, float |-> <<>>, unit |-> <<>>],
       [icon |-> "U+F85A", name |-> <<"M", "e", "m", "o", "r", "y">>, str |-> <<>>, float |-> i.Memory, unit |-> <<"G", "B">>],
       [icon |-> "U+F0A0", name |-> <<"D", "i", "s", "k">>, str |-> <<>>, float |-> i.Disk, unit |-> <<"G", "B">>],
       [icon |-> "U+F43A", name |-> <<"U", "p", "t", "i", "m", "e">>, str |-> <<>>, float |-> i.Uptime, unit |-> <<"h", "o", "u", "r", "s">>],
       [icon |-> "U+F6FF", name |-> <<"N", "e", "t", "w", "o", "r", "k">>,
        str |-> <<"U+2191">> \o FormatFloat2(i.NetworkSent) \o <<" ", "M", "B", " ", "|", " ", "U+2193">>
                    \o FormatFloat2(i.NetworkRecv) \o <<" ", "M", "B">>,
        float |-> <<>>, unit |-> <<>>] >>

\* the body of the `for _, metric := range metrics` loop, up to `line`
MetricLine(metric, noColor) ==
    LET valueStr == IF metric.float # <<>>
                    THEN FormatFloat2(metric.float) \o <<" ">> \o metric.unit
                    ELSE metric.str
    IN  <<metric.icon, " ">> \o Sprint(HeaderAttrs, noColor, metric.name) \o <<":", " ">>
            \o Sprint(ValueAttrs, noColor, valueStr)

MetricCount == Cardinality({k \in 1..Len(out) : out[k].kind = "metric"})

\* one iteration of the loop of printSystemDetails; after the last one
\* PrintSystemInfo returns nil
printSystemDetails ==
    /\ pc = "printSystemDetails"
    /\ LET metrics == Metrics(info[1])
           line == MetricLine(metrics[MetricCount + 1], colorNoColor)
       IN  /\ out' = Append(out, Written("metric", line, getPadding(line, totalWidth)))
           /\ pc' = IF MetricCount + 1 = NumMetrics
                    THEN "runNeofetch return"
                    ELSE "printSystemDetails"
    /\ UNCHANGED <<env, colorNoColor, called, info, err, exitCode>>
    /\ UNCHANGED <<goos, cmdVars, detectVars, padVars>>

\* runNeofetch's `if err != nil { return }`, then Run, rootCmd.Execute and
\* Execute return: the process ends with status 0 either way
runNeofetch_Return ==
    /\ pc = "runNeofetch return"
    /\ exitCode' = <<0>>
    /\ pc' = "exited"
    /\ UNCHANGED <<env, colorNoColor, called, info, err, out>>
    /\ UNCHANGED <<goos, cmdVars, detectVars, padVars>>

Next ==
    \/ Execute
    \/ runNeofetch
    \/ PrintSystemInfo
    \/ hostInfo
    \/ cpuInfo
    \/ cpuCount
    \/ memInfo
    \/ diskInfo
    \/ netInfo
    \/ collectSystemInfo_Return
    \/ PrintSystemInfo_CheckErr
    \/ printSystemDetails
    \/ runNeofetch_Return

Spec == InitRun /\ [][Next]_vars

(***************************************************************************)
(* Properties of the report.                                               *)
(***************************************************************************)
Ended == pc \in {"exited", "panicked"}

\* the sub-queries that would fail in this run, by their place in the order
FailingPlaces == {i \in 1..Len(QueryOrder) : QueryOrder[i] \in env.fails}

\* C1: when any sub-query fails, no metric line is written and one collection
\* error is returned; a run writes all the metric lines or none.
C1_AllOrNothing ==
    /\ env.fails # {} => MetricCount = 0
    /\ (env.fails # {} /\ pc \in {"runNeofetch return", "exited"} /\ ~env.flagErr) =>
          /\ Len(err) = 3
          /\ err[1] = FailedToCollect
          /\ err[3] \in env.fails
          /\ info = NIL
    /\ Ended => MetricCount \in {0, NumMetrics}
    /\ (pc = "exited" /\ ~env.flagErr /\ err = NIL) => MetricCount = NumMetrics

\* the disk query alone fails, after four queries succeeded: nothing is written
C1_Witness ==
    /\ pc = "exited"
    /\ env.fails = {"disk info"}
    /\ env.noAscii
    /\ Len(called) = 5
    /\ out = <<>>
    /\ Len(err) = 3

\* C2: the sub-queries run in the order host info, CPU info, CPU count, memory,
\* disk, network; the error names the first failing one in that order, and no
\* sub-query after it is invoked.
C2_FirstFailureStops ==
    /\ Len(called) <= Len(QueryOrder)
    /\ \A i \in 1..Len(called) : called[i] = QueryOrder[i]
    /\ \A i \in 1..(Len(called) - 1) : called[i] \notin env.fails
    /\ err # NIL =>
          /\ FailingPlaces # {}
          /\ Len(called) = MinOf(FailingPlaces)
          /\ err[Len(err)] = QueryOrder[MinOf(FailingPlaces)]
          /\ err[Len(err) - 1] = FailedToGet(QueryOrder[MinOf(FailingPlaces)])
    /\ (pc = "exited" /\ ~env.flagErr /\ env.fails # {}) => err # NIL
    /\ (pc = "exited" /\ ~env.flagErr /\ env.fails = {}) => Len(called) = Len(QueryOrder)

\* two sub-queries would fail: the earlier one is reported, the later never runs
C2_Witness ==
    /\ pc = "exited"
    /\ env.fails = {"CPU count", "network info"}
    /\ called = <<"host info", "CPU info", "CPU count">>
    /\ err = <<FailedToCollect, FailedToGet("CPU count"), "CPU count">>

\* C3: when PrintSystemInfo returns a collection error, the caller prints a
\* diagnostic, renders nothing more, and the process ends with a non-zero
\* exit status.
C3_FailureReachesExitStatus ==
    (pc = "exited" /\ err # NIL) =>
        /\ MetricCount = 0
        /\ \E k \in 1..Len(out) : out[k].kind = "diagnostic"
        /\ exitCode # <<0>>

RECURSIVE VisibleText(_, _)
\* the code points a terminal shows: an SGR sequence, ESC up to its "m", shows
\* nothing
VisibleText(s, inEscape) ==
    IF s = <<>> THEN <<>>
    ELSE IF inEscape THEN VisibleText(Tail(s), Head(s) # "m")
    ELSE IF Head(s) = ESC THEN VisibleText(Tail(s), TRUE)
    ELSE <<Head(s)>> \o VisibleText(Tail(s), FALSE)

\* C9: every metric line whose visible text (icon, label, colon, value) has
\* fewer than 58 code points is padded with spaces to a visible width of
\* exactly 58, with styling enabled as with styling disabled.
C9_PaddedToTotalWidth ==
    \A k \in 1..Len(out) :
        (out[k].kind = "metric" /\ Len(VisibleText(out[k].line, FALSE)) < totalWidth) =>
            /\ \A j \in 1..Len(out[k].padding) : out[k].padding[j] = " "
            /\ Len(VisibleText(out[k].line, FALSE)) + Len(out[k].padding) = totalWidth

\* C10: collectSystemInfo always returns, with a non-nil snapshot and a nil
\* error or with a nil snapshot and a non-nil error, also when a sub-query
\* succeeds with an empty list; it never ends abnormally.
C10_CollectReturns ==
    /\ pc # "panicked"
    /\ pc = "if err != nil" => (info = NIL) # (err = NIL)

====
